---------------------------- MODULE Spec2Model ----------------------------
(***************************************************************************)
(* A model of thetc-auth: the cache-aside AppAuth token verifier           *)
(* (appauth/postgres_redis.rs) and the password-reset composition          *)
(* (user/postgres.rs over a session backend), the session backends with    *)
(* their manager (session.rs, session/memory.rs, session/redis.rs) and the *)
(* Argon2id strategy's constructor (password_strategy.rs).                 *)
(*                                                                         *)
(* Every awaited I/O call of the source is one atomic step of the calling  *)
(* task; tasks interleave between steps.  Each I/O step may fail, as the   *)
(* `?` after it in the source allows.                                      *)
(***************************************************************************)
EXTENDS Integers, Sequences, FiniteSets, TLC

(***************************************************************************)
(* Bounds of the model.                                                    *)
(***************************************************************************)
\* Rows the durable appauth table may hold (ids are allocated 1..MaxAppAuths).
MaxAppAuths == 1
\* Concurrent caller tasks of the AppAuth backend.
NumCallers == 2
\* The clock runs 0..MaxTime, in ticks of half a second.
MaxTime == 2
\* Clock ticks per second: DateTime<Utc> is finer than a unix timestamp.
TicksPerSec == 2
\* Rows of the users table.
NumUsers == 2
\* Password reset ids the session backend may issue (1..MaxResets, never reused).
MaxResets == 2
\* Concurrent caller tasks of the password-reset flow.
NumResetCallers == 2
\* Salts the random generator may draw.
NumSalts == 2
\* Session ids a backend may issue (1..MaxSessions, never reused).
MaxSessions == 2
\* The session clock runs 0..MaxSessionTime, in ticks of a third of a second:
\* Redis rounds TTL to the nearest second, which needs a grid finer than half
\* a second to show.
MaxSessionTime == 4
SessionTicksPerSec == 3
\* Concurrent callers of create_user.
NumCreators == 2
\* The identifiers compared have 1..MaxNameLen characters.
MaxNameLen == 2
\* Argon2idStrategy::new is tried with each parameter from its minimum less
\* ParamSlack up to its minimum plus ParamSlack (not below 0).
ParamSlack == 1
\* The largest memory_mib tried, with the value below it: 2^32 / 1024, where
\* memory_mib * 1024 first leaves u32, and one more.
MaxMemoryMib == 4194305

(***************************************************************************)
(* Option<T>: None is the empty sequence, Some(x) the one-element one.     *)
(***************************************************************************)
None == << >>
Some(x) == << x >>
IsSome(o) == o # None
Unwrap(o) == o[1]

AppAuthIds == 1..MaxAppAuths
Callers == 1..NumCallers
\* The tokens callers present; records are created with the first and rotated
\* among the first two, so the third is never a record's token.
Tokens == {"T1", "T2", "T3"}
NewTokens == {"T1"}
RotatedTokens == {"T1", "T2"}
Times == 0..MaxTime
ExpiryChoices == {None} \cup {Some(t) : t \in 1..MaxTime}

UserIds == 1..NumUsers
\* A user id no row of the users table has.
NoSuchUser == NumUsers + 1
ResetIds == 1..MaxResets
ResetCallers == 1..NumResetCallers
Salts == 1..NumSalts
SessionBackends == {"memory", "postgres", "trait"}

\* generate_password_hash: input.len() < 8.
MinPasswordLen == 8
\* AsciiUsername / EmailUsername from_str: value.len() > 64.
MaxUsernameBytes == 64
\* Argon2idStrategy::new: pepper.len() < 8, memory_mib < 15,
\* iteration_count < 2, parallelism_degree < 1.
MinPepperLen == 8
MinMemoryMib == 15
MinIterationCount == 2
MinParallelismDegree == 1

\* A password is a sequence of characters; e_acute stands for a two-byte one.
Rep(c, n) == [i \in 1..n |-> c]
Utf8Width(c) == IF c = "e_acute" THEN 2 ELSE 1
\* str::len(): the length in bytes of the UTF-8 encoding.
RECURSIVE ByteLen(_)
ByteLen(s) == IF s = << >> THEN 0 ELSE Utf8Width(Head(s)) + ByteLen(Tail(s))
\* The new passwords callers try: one byte too short, the initial one, another.
Passwords ==
    { Rep("a", MinPasswordLen - 1), Rep("a", MinPasswordLen),
      Rep("b", MinPasswordLen) }
ResetExpiryChoices == {1, MaxTime + 1}

SessionIds == 1..MaxSessions
\* session.rs (SessionHandler over memory::Backend), session/memory.rs,
\* session/redis.rs and session/postgres.rs.
SessionVariants == {"handler", "memory", "redis", "postgres"}
\* alive_duration: minus one second, a third of a second, one second.
AliveDurations == {0 - SessionTicksPerSec, 1, SessionTicksPerSec}

VARIABLES
    now,      \* the current time, in ticks
    backend,  \* the SessionBackend the SessionManager of the reset flow wraps
    resets,   \* that backend's password reset ids: id -> None | Some(entry)
    nextReset,\* how many reset ids have been issued
    users,    \* the users table: id -> row
    rcall,    \* each reset-flow caller task's position, arguments and result
    pg,       \* the durable appauth table: id -> None | Some(row)
    redis,    \* the cache: id -> None | Some([token, exat]) for key appauth/<id>
    call,     \* each caller task's position, arguments, locals and result
    variant,  \* which session backend is in use
    auto_refresh,   \* SessionHandler / SessionManager: refresh on access
    alive_duration, \* SessionHandler / SessionManager: lifetime, in ticks
    sessions, \* the session backend's table: id -> None | Some(record)
    nextSession,    \* how many session ids have been issued
    sweep,    \* clear_stale_sessions between its two locks: the keys it collected
    last,     \* the latest session operation that returned, with its result
    params,   \* the arguments Argon2idStrategy::new is called with, and
              \* whether the build checks integer overflow
    strategy, \* what Argon2idStrategy::new returned, once it has
    password, \* the password generate_password_hash is called with
    attempt,  \* the password verify_password is called with
    stored,   \* what generate_password_hash returned, once it has
    checked,  \* the stored hash verify_password was given and what it and
              \* the user backend's verify_password returned
    idents,   \* the identifier policy in use and two strings to parse under it
    parsed,   \* what from_str returned for the two strings, once it has
    compared, \* eq, cmp and the hashes of the two identifiers, once compared
    listed,   \* what list_users returned for a table holding the two strings
    txn       \* each create_user caller's position, its open transaction's
              \* uncommitted row and the call's result

appauthVars == << pg, redis, call >>
resetVars == << backend, resets, nextReset, users, rcall >>
sessionVars ==
    << variant, auto_refresh, alive_duration, sessions, nextSession, sweep, last >>
strategyVars == << params, strategy, password, attempt, stored, checked >>
usernameVars == << idents, parsed, compared, listed >>
createVars == << txn >>
vars ==
    << now, pg, redis, call, backend, resets, nextReset, users, rcall,
       variant, auto_refresh, alive_duration, sessions, nextSession, sweep, last,
       params, strategy, password, attempt, stored, checked,
       idents, parsed, compared, listed, txn >>

\* pc: where the task stands; op, id, token: the call and its arguments;
\* seen: the cache's answer (redis_token); rec: the row read (appauth, record);
\* res: Ok or the Error variant returned; db: the call went to the durable store.
Idle ==
    [pc |-> "idle", op |-> "none", id |-> 0, token |-> "",
     seen |-> None, rec |-> None, res |-> "", db |-> FALSE]

\* The Display text of the appauth Error variants (#[error("..")]).
Error_message(res) ==
    CASE res \in {"SqlxPool", "Sqlx"} -> "sqlx error"
      [] res \in {"RedisPool", "Redis"} -> "redis error"
      [] res = "InvalidToken" -> "The provided token was invalid."

\* A task may start a new call when it is not inside one.
Free(p) == call[p].pc \in {"idle", "done"}

\* DateTime::timestamp(): whole seconds, the sub-second part dropped.
timestamp(t) == t \div TicksPerSec

\* Redis: a key with EXAT s is gone once the clock reaches second s.
Live(entry, t) == entry.exat = None \/ t < Unwrap(entry.exat) * TicksPerSec

\* Redis GET appauth/<id>: the stored token, or nil.
redis_get(r, id) == IF IsSome(r[id]) THEN Some(Unwrap(r[id]).token) ELSE None

\* The rows' ids in allocation order: the next INSERT returns the first free one.
FreeIds == {i \in AppAuthIds : pg[i] = None}
NextId == CHOOSE i \in FreeIds : \A j \in FreeIds : i <= j

\* database::find_appauth_by_id: SELECT * FROM table WHERE id = $1 (fetch_one).
find_appauth_by_id(id) == IF id \in AppAuthIds THEN pg[id] ELSE None

\* set_redis_token: SET appauth/<id> <token> [EXAT <expires_at.timestamp()>].
set_redis_token(r, appauth) ==
    LET exat == IF IsSome(appauth.expires_at)
                THEN Some(timestamp(Unwrap(appauth.expires_at)))
                ELSE None
        entry == [token |-> appauth.token, exat |-> exat]
    IN [r EXCEPT ![appauth.id] = IF Live(entry, now) THEN Some(entry) ELSE None]


(***************************************************************************)
(* The state after construction: an empty table, an empty cache, no call.  *)
(***************************************************************************)
AppAuthInit ==
    /\ now = 0
    /\ pg = [i \in AppAuthIds |-> None]
    /\ redis = [i \in AppAuthIds |-> None]
    /\ call = [p \in Callers |-> Idle]

\* A call's end: the caller keeps the arguments, the result and, from a
\* successful create_appauth, the AppAuth returned.
Finish(p, res, ret) ==
    call' = [call EXCEPT ![p].pc = "done", ![p].res = res, ![p].rec = ret,
                         ![p].seen = None]

(***************************************************************************)
(* Backend::create_appauth                                                 *)
(***************************************************************************)
\* pg_pool.acquire().await? ; database::insert_app_auth(..).await?
create_appauth_insert(p, token, expires_at) ==
    /\ Free(p)
    /\ FreeIds # {}
    /\ \E ok \in BOOLEAN :
        IF ok
        THEN /\ pg' = [pg EXCEPT ![NextId] =
                          Some([id |-> NextId, token |-> token,
                                expires_at |-> expires_at])]
             /\ call' = [call EXCEPT ![p] =
                          [Idle EXCEPT !.pc = "c_find", !.op = "create",
                                       !.id = NextId, !.db = TRUE]]
        ELSE /\ pg' = pg
             /\ call' = [call EXCEPT ![p] =
                          [Idle EXCEPT !.pc = "done", !.op = "create",
                                       !.db = TRUE, !.res = "Sqlx"]]
    /\ UNCHANGED << now, redis, resetVars, sessionVars, strategyVars, usernameVars, createVars >>

\* database::find_appauth_by_id(&mut conn, id, ..).await?
create_appauth_find(p) ==
    /\ call[p].pc = "c_find"
    /\ \E ok \in BOOLEAN :
        LET row == find_appauth_by_id(call[p].id) IN
        IF ok /\ IsSome(row)
        THEN call' = [call EXCEPT ![p].pc = "c_set", ![p].rec = row]
        ELSE Finish(p, "Sqlx", None)
    /\ UNCHANGED << now, pg, redis, resetVars, sessionVars, strategyVars, usernameVars, createVars >>

\* set_redis_token(&self.redis_pool, &appauth).await? ; Ok(appauth)
create_appauth_set(p) ==
    /\ call[p].pc = "c_set"
    /\ \E ok \in BOOLEAN :
        IF ok
        THEN /\ redis' = set_redis_token(redis, Unwrap(call[p].rec))
             /\ Finish(p, "Ok", call[p].rec)
        ELSE /\ redis' = redis
             /\ Finish(p, "RedisPool", None)
    /\ UNCHANGED << now, pg, resetVars, sessionVars, strategyVars, usernameVars, createVars >>

(***************************************************************************)
(* Backend::verify_token                                                   *)
(***************************************************************************)
\* Faulty variant: the cache comparison never returns early; every call goes on to the
\* durable store.
verify_token_get_always_durable(p, id, token) ==
    /\ Free(p)
    /\ \E io \in {"ok", "RedisPool", "Redis"} :
        LET c == [Idle EXCEPT !.op = "verify", !.id = id, !.token = token]
        IN IF io # "ok"
           THEN call' = [call EXCEPT ![p] = [c EXCEPT !.pc = "done", !.res = io]]
           ELSE call' = [call EXCEPT ![p] =
                    [c EXCEPT !.pc = "v_find", !.seen = redis_get(redis, id)]]
    /\ UNCHANGED << now, pg, redis, resetVars, sessionVars, strategyVars, usernameVars, createVars >>

\* Faulty variant: the cache comparison is inverted (redis_token != token).
verify_token_get_inverted(p, id, token) ==
    /\ Free(p)
    /\ \E io \in {"ok", "RedisPool", "Redis"} :
        LET c == [Idle EXCEPT !.op = "verify", !.id = id, !.token = token]
            redis_token == redis_get(redis, id)
        IN IF io # "ok"
           THEN call' = [call EXCEPT ![p] = [c EXCEPT !.pc = "done", !.res = io]]
           ELSE IF IsSome(redis_token) /\ Unwrap(redis_token) # token
           THEN call' = [call EXCEPT ![p] =
                    [c EXCEPT !.pc = "done", !.res = "Ok"]]
           ELSE call' = [call EXCEPT ![p] =
                    [c EXCEPT !.pc = "v_find", !.seen = redis_token]]
    /\ UNCHANGED << now, pg, redis, resetVars, sessionVars, strategyVars, usernameVars, createVars >>

\* Faulty variant: a cached value that differs from the presented token is taken as
\* the verdict, and the call fails at the cache.
verify_token_get_reject_at_cache(p, id, token) ==
    /\ Free(p)
    /\ \E io \in {"ok", "RedisPool", "Redis"} :
        LET c == [Idle EXCEPT !.op = "verify", !.id = id, !.token = token]
            redis_token == redis_get(redis, id)
        IN IF io # "ok"
           THEN call' = [call EXCEPT ![p] = [c EXCEPT !.pc = "done", !.res = io]]
           ELSE IF IsSome(redis_token)
           THEN call' = [call EXCEPT ![p] =
                    [c EXCEPT !.pc = "done",
                              !.res = IF Unwrap(redis_token) = token
                                      THEN "Ok" ELSE "InvalidToken"]]
           ELSE call' = [call EXCEPT ![p] =
                    [c EXCEPT !.pc = "v_find", !.seen = redis_token]]
    /\ UNCHANGED << now, pg, redis, resetVars, sessionVars, strategyVars, usernameVars, createVars >>

\* redis_pool.get().await? ; GET appauth/<id> .await? ; the cache comparison.
verify_token_get(p, id, token) ==
    /\ Free(p)
    /\ \E io \in {"ok", "RedisPool", "Redis"} :
        LET c == [Idle EXCEPT !.op = "verify", !.id = id, !.token = token]
            redis_token == redis_get(redis, id)
        IN IF io # "ok"
           THEN call' = [call EXCEPT ![p] = [c EXCEPT !.pc = "done", !.res = io]]
           ELSE IF IsSome(redis_token) /\ Unwrap(redis_token) = token
           THEN call' = [call EXCEPT ![p] =
                    [c EXCEPT !.pc = "done", !.res = "Ok"]]
           ELSE call' = [call EXCEPT ![p] =
                    [c EXCEPT !.pc = "v_find", !.seen = redis_token]]
    /\ UNCHANGED << now, pg, redis, resetVars, sessionVars, strategyVars, usernameVars, createVars >>

\* pg_pool.acquire().await? ; find_appauth_by_id(..).await? ; token != real_token
verify_token_find(p) ==
    /\ call[p].pc = "v_find"
    /\ \E ok \in BOOLEAN :
        LET record == find_appauth_by_id(call[p].id) IN
        IF ok /\ IsSome(record)
        THEN IF call[p].token # Unwrap(record).token
             THEN call' = [call EXCEPT ![p].pc = "v_set", ![p].rec = record,
                                       ![p].db = TRUE]
             ELSE call' = [call EXCEPT ![p].pc = "done", ![p].seen = None,
                                       ![p].db = TRUE, ![p].res = "Ok"]
        ELSE call' = [call EXCEPT ![p].pc = "done", ![p].seen = None,
                                  ![p].db = TRUE, ![p].res = "Sqlx"]
    /\ UNCHANGED << now, pg, redis, resetVars, sessionVars, strategyVars, usernameVars, createVars >>

\* Faulty variant: the cache is rewritten with the presented token, not the record's.
verify_token_set_presented(p) ==
    /\ call[p].pc = "v_set"
    /\ \E ok \in BOOLEAN :
        IF ok
        THEN /\ redis' = set_redis_token(redis,
                            [Unwrap(call[p].rec) EXCEPT !.token = call[p].token])
             /\ Finish(p, "InvalidToken", None)
        ELSE /\ redis' = redis
             /\ Finish(p, "RedisPool", None)
    /\ UNCHANGED << now, pg, resetVars, sessionVars, strategyVars, usernameVars, createVars >>

\* set_redis_token(&self.redis_pool, &record).await? ; Err(Error::InvalidToken)
verify_token_set(p) ==
    /\ call[p].pc = "v_set"
    /\ \E ok \in BOOLEAN :
        IF ok
        THEN /\ redis' = set_redis_token(redis, Unwrap(call[p].rec))
             /\ Finish(p, "InvalidToken", None)
        ELSE /\ redis' = redis
             /\ Finish(p, "RedisPool", None)
    /\ UNCHANGED << now, pg, resetVars, sessionVars, strategyVars, usernameVars, createVars >>

(***************************************************************************)
(* The environment of the backend.                                         *)
(***************************************************************************)
\* An out-of-band UPDATE of a row's token in the durable store.
RotateToken(id, token) ==
    /\ IsSome(pg[id])
    /\ Unwrap(pg[id]).token # token
    /\ pg' = [pg EXCEPT ![id] = Some([Unwrap(@) EXCEPT !.token = token])]
    /\ UNCHANGED << now, redis, call, resetVars, sessionVars, strategyVars, usernameVars, createVars >>

\* A manual DEL of (or the cache evicting) key appauth/<id>.
EvictCache(id) ==
    /\ IsSome(redis[id])
    /\ redis' = [redis EXCEPT ![id] = None]
    /\ UNCHANGED << now, pg, call, resetVars, sessionVars, strategyVars, usernameVars, createVars >>

\* Time passes; Redis drops the keys whose EXAT has been reached.
Tick ==
    /\ now < MaxTime
    /\ now' = now + 1
    /\ redis' = [i \in AppAuthIds |->
                    IF IsSome(redis[i]) /\ Live(Unwrap(redis[i]), now + 1)
                    THEN redis[i] ELSE None]
    /\ UNCHANGED << pg, call, resetVars, sessionVars, strategyVars, usernameVars, createVars >>

AppAuthNext ==
    \/ \E p \in Callers, t \in NewTokens, e \in ExpiryChoices :
          create_appauth_insert(p, t, e)
    \/ \E p \in Callers : create_appauth_find(p)
    \/ \E p \in Callers : create_appauth_set(p)
    \/ \E p \in Callers, i \in AppAuthIds, t \in Tokens : verify_token_get(p, i, t)
    \/ \E p \in Callers : verify_token_find(p)
    \/ \E p \in Callers : verify_token_set(p)
    \/ \E i \in AppAuthIds, t \in RotatedTokens : RotateToken(i, t)
    \/ \E i \in AppAuthIds : EvictCache(i)
    \/ Tick



(***************************************************************************)
(* The password hashing strategy, as far as the reset flow uses it.        *)
(***************************************************************************)
\* Argon2idStrategy::generate_password_hash with the salt drawn: the encoded
\* hash embeds the salt; the hash function is modelled as injective.
generate_password_hash(input, salt) ==
    IF ByteLen(input) < MinPasswordLen
    THEN [ok |-> FALSE, err |-> "PasswordTooShort"]
    ELSE [ok |-> TRUE, hash |-> << "argon2id", salt, input >>]

(***************************************************************************)
(* The users table (user/postgres.rs, mod database).                       *)
(***************************************************************************)
username_of(u) == << "user", u >>

\* database::find_user_by_id: SELECT .. WHERE id = $1 LIMIT 1 (fetch_one).
find_user_by_id(id) == IF id \in UserIds THEN users[id] ELSE None

\* database::set_password: UPDATE .. SET password_hash = $1 WHERE username = $2.
set_password(tbl, username, password_hash) ==
    [u \in UserIds |->
        IF IsSome(tbl[u]) /\ Unwrap(tbl[u]).username = username
        THEN Some([Unwrap(tbl[u]) EXCEPT !.password_hash = password_hash])
        ELSE tbl[u]]

(***************************************************************************)
(* Password reset ids in the session backends.                             *)
(***************************************************************************)
Outcome(res, val, tbl) == [res |-> res, val |-> val, resets |-> tbl]

\* session/memory.rs: generate_password_reset_id is todo!().
memory_generate_password_reset_id(tbl, id, expires_at) ==
    { Outcome("panic", None, tbl) }

\* session/memory.rs: consume_password_reset_id is todo!().
memory_consume_password_reset_id(tbl, id) ==
    { Outcome("panic", None, tbl) }

\* session/postgres.rs: generate_password_reset_id is todo!().
postgres_generate_password_reset_id(tbl, id, expires_at) ==
    { Outcome("panic", None, tbl) }

\* session/postgres.rs: consume_password_reset_id is todo!().
postgres_consume_password_reset_id(tbl, id) ==
    { Outcome("panic", None, tbl) }

\* The SessionBackend contract: issue a fresh id bound to the user, with its
\* own expiry; or fail with the backend's storage error.
trait_generate_password_reset_id(tbl, id, expires_at) ==
    { Outcome("BackendError", None, tbl),
      Outcome("Ok", Some(nextReset + 1),
              [tbl EXCEPT ![nextReset + 1] =
                  Some([user_id |-> id, expires_at |-> expires_at])]) }

\* The SessionBackend contract: in one atomic step check the id exists and is
\* unexpired, return the bound user id and delete the id.
trait_consume_password_reset_id(tbl, id) ==
    { Outcome("BackendError", None, tbl),
      IF IsSome(tbl[id]) /\ now < Unwrap(tbl[id]).expires_at
      THEN Outcome("Ok", Some(Unwrap(tbl[id]).user_id), [tbl EXCEPT ![id] = None])
      ELSE Outcome("NotFound", None, tbl) }

\* SessionManager::generate_password_reset_id: pass-through to the backend.
SessionManager_generate_password_reset_id(id, expires_at) ==
    CASE backend = "memory" -> memory_generate_password_reset_id(resets, id, expires_at)
      [] backend = "postgres" -> postgres_generate_password_reset_id(resets, id, expires_at)
      [] OTHER -> trait_generate_password_reset_id(resets, id, expires_at)

\* SessionManager::consume_password_reset_id: pass-through to the backend.
SessionManager_consume_password_reset_id(id) ==
    CASE backend = "memory" -> memory_consume_password_reset_id(resets, id)
      [] backend = "postgres" -> postgres_consume_password_reset_id(resets, id)
      [] OTHER -> trait_consume_password_reset_id(resets, id)

\* pc: where the task stands; op, rid, pw: the call and its arguments (the
\* password is dropped when the call ends); uid: the user id consume returned;
\* user: the row find_user_by_id returned; res: Ok or the error returned.
RIdle ==
    [pc |-> "idle", op |-> "none", rid |-> 0, pw |-> << >>,
     uid |-> None, user |-> None, res |-> ""]

RFree(p) == rcall[p].pc \in {"idle", "done"}

ResetInit ==
    /\ backend \in SessionBackends
    /\ resets = [r \in ResetIds |-> None]
    /\ nextReset = 0
    /\ users = [u \in UserIds |->
                  Some([id |-> u, username |-> username_of(u),
                        password_hash |->
                            generate_password_hash(Rep("a", MinPasswordLen), 1).hash])]
    /\ rcall = [p \in ResetCallers |-> RIdle]

\* A caller issues a reset id for a user id (which need not have a row).
generate_password_reset_id(p, id, expires_at) ==
    /\ RFree(p)
    /\ nextReset < MaxResets
    /\ \E o \in SessionManager_generate_password_reset_id(id, expires_at) :
        /\ resets' = o.resets
        /\ nextReset' = IF o.res = "Ok" THEN nextReset + 1 ELSE nextReset
        /\ rcall' = [rcall EXCEPT ![p] =
                       [RIdle EXCEPT !.pc = "done", !.op = "generate",
                                     !.rid = IF o.res = "Ok" THEN Unwrap(o.val) ELSE 0,
                                     !.res = o.res]]
    /\ UNCHANGED << now, backend, users, appauthVars, sessionVars, strategyVars, usernameVars, createVars >>

\* A caller consumes a reset id directly.
consume_password_reset_id(p, id) ==
    /\ RFree(p)
    /\ \E o \in SessionManager_consume_password_reset_id(id) :
        /\ resets' = o.resets
        /\ rcall' = [rcall EXCEPT ![p] =
                       [RIdle EXCEPT !.pc = "done", !.op = "consume", !.rid = id,
                                     !.uid = o.val, !.res = o.res]]
    /\ UNCHANGED << now, backend, nextReset, users, appauthVars, sessionVars, strategyVars, usernameVars, createVars >>

(***************************************************************************)
(* PgPasswordResetBackend::reset_password                                  *)
(***************************************************************************)
\* A reset_password that goes on after a failed consume, with the first user.
reset_password_consume_unchecked(p, password_reset_id, new_password) ==
    /\ RFree(p)
    /\ \E o \in SessionManager_consume_password_reset_id(password_reset_id) :
        LET c == [RIdle EXCEPT !.op = "reset", !.rid = password_reset_id,
                               !.pw = new_password]
        IN /\ resets' = o.resets
           /\ rcall' = [rcall EXCEPT ![p] =
                          [c EXCEPT !.pc = "r_find",
                                    !.uid = IF o.res = "Ok" THEN o.val ELSE Some(1)]]
    /\ UNCHANGED << now, backend, nextReset, users, appauthVars, sessionVars, strategyVars, usernameVars, createVars >>

\* self.session_manager.consume_password_reset_id(password_reset_id).await?
reset_password_consume(p, password_reset_id, new_password) ==
    /\ RFree(p)
    /\ \E o \in SessionManager_consume_password_reset_id(password_reset_id) :
        LET c == [RIdle EXCEPT !.op = "reset", !.rid = password_reset_id,
                               !.pw = new_password]
        IN /\ resets' = o.resets
           /\ rcall' = [rcall EXCEPT ![p] =
                          IF o.res = "Ok"
                          THEN [c EXCEPT !.pc = "r_find", !.uid = o.val]
                          ELSE [c EXCEPT !.pc = "done", !.res = o.res,
                                         !.pw = << >>]]
    /\ UNCHANGED << now, backend, nextReset, users, appauthVars, sessionVars, strategyVars, usernameVars, createVars >>

\* self.users.find_user_by_id(user_id).await?
reset_password_find(p) ==
    /\ rcall[p].pc = "r_find"
    /\ \E ok \in BOOLEAN :
        LET user == find_user_by_id(Unwrap(rcall[p].uid)) IN
        IF ok /\ IsSome(user)
        THEN rcall' = [rcall EXCEPT ![p].pc = "r_change", ![p].user = user]
        ELSE rcall' = [rcall EXCEPT ![p].pc = "done", ![p].res = "Sqlx",
                                    ![p].pw = << >>]
    /\ UNCHANGED << now, backend, resets, nextReset, users, appauthVars, sessionVars, strategyVars, usernameVars, createVars >>

\* A change_password that stores the hash before it checks the password.
change_password_write_first(tbl, user, new_password, salt, acquired, written) ==
    IF ~acquired THEN [res |-> "Sqlx", users |-> tbl]
    ELSE [res |-> IF ~generate_password_hash(new_password, salt).ok
                  THEN "PasswordTooShort"
                  ELSE IF ~written THEN "Sqlx" ELSE "Ok",
          users |-> set_password(tbl, user.username,
                                 << "argon2id", salt, new_password >>)]

\* Backend::change_password(&user, new_password): pool.acquire().await? ;
\* generate_password_hash(new_password)? ; database::set_password(..).await?
change_password(tbl, user, new_password, salt, acquired, written) ==
    LET password_hash == generate_password_hash(new_password, salt) IN
    IF ~acquired THEN [res |-> "Sqlx", users |-> tbl]
    ELSE IF ~password_hash.ok THEN [res |-> "PasswordTooShort", users |-> tbl]
    ELSE IF ~written THEN [res |-> "Sqlx", users |-> tbl]
    ELSE [res |-> "Ok",
          users |-> set_password(tbl, user.username, password_hash.hash)]

\* self.users.change_password(&user, new_password).await? ; Ok(())
reset_password_change(p) ==
    /\ rcall[p].pc = "r_change"
    /\ \E salt \in Salts, acquired \in BOOLEAN, written \in BOOLEAN :
        LET r == change_password(users, Unwrap(rcall[p].user), rcall[p].pw,
                                 salt, acquired, written)
        IN /\ users' = r.users
           /\ rcall' = [rcall EXCEPT ![p].pc = "done", ![p].res = r.res,
                                    ![p].pw = << >>, ![p].user = None]
    /\ UNCHANGED << now, backend, resets, nextReset, appauthVars, sessionVars, strategyVars, usernameVars, createVars >>

\* Time passes for the reset flow.
ResetTick ==
    /\ now < MaxTime
    /\ now' = now + 1
    /\ UNCHANGED << resetVars, appauthVars, sessionVars, strategyVars, usernameVars, createVars >>

ResetNext ==
    \/ \E p \in ResetCallers, u \in UserIds \cup {NoSuchUser},
          e \in ResetExpiryChoices : generate_password_reset_id(p, u, e)
    \/ \E p \in ResetCallers, r \in ResetIds : consume_password_reset_id(p, r)
    \/ \E p \in ResetCallers, r \in ResetIds, w \in Passwords :
          reset_password_consume(p, r, w)
    \/ \E p \in ResetCallers : reset_password_find(p)
    \/ \E p \in ResetCallers : reset_password_change(p)
    \/ ResetTick

(***************************************************************************)
(* The session backends.  Each operation is one step: the in-memory ones   *)
(* run under the table's lock, the Redis ones are one command or one       *)
(* MULTI/EXEC pipeline.                                                    *)
(***************************************************************************)
Session(id, user_id, expires_at) ==
    [id |-> id, user_id |-> user_id, expires_at |-> expires_at]

\* What an operation returns (res: Ok or the Error variant; rec: the value)
\* and the table it leaves.
SOut(res, rec, tbl) == [res |-> res, rec |-> rec, sessions |-> tbl]

\* Faulty variant: every new record is filed under the first key.
memory_new_session_first_key(tbl, id, user_id, expires_at) ==
    { SOut("Ok", Some(Session(id, user_id, expires_at)),
           [tbl EXCEPT ![1] = Some(Session(id, user_id, expires_at))]) }

\* memory::Backend::new_session (the same body in session.rs and
\* session/memory.rs): insert under a fresh id, return the record.
memory_new_session(tbl, id, user_id, expires_at) ==
    { SOut("Ok", Some(Session(id, user_id, expires_at)),
           [tbl EXCEPT ![id] = Some(Session(id, user_id, expires_at))]) }

\* Faulty variant: a record is still returned at the instant it expires.
memory_session_inclusive(tbl, id, extend_expiry) ==
    IF IsSome(tbl[id])
    THEN IF now <= Unwrap(tbl[id]).expires_at
         THEN { SOut("Ok", tbl[id], tbl) }
         ELSE { SOut("NotFound", None, [tbl EXCEPT ![id] = None]) }
    ELSE { SOut("NotFound", None, tbl) }

\* session/memory.rs Backend::session: extend_expiry is not used.
memory_session(tbl, id, extend_expiry) ==
    IF IsSome(tbl[id])
    THEN IF now < Unwrap(tbl[id]).expires_at
         THEN { SOut("Ok", tbl[id], tbl) }
         ELSE { SOut("NotFound", None, [tbl EXCEPT ![id] = None]) }
    ELSE { SOut("NotFound", None, tbl) }

\* Faulty variant: the read does not look at expires_at.
sync_memory_session_unchecked(tbl, id) == SOut("Ok", tbl[id], tbl)

\* session.rs memory::Backend::session: Ok(Some(v)) or Ok(None).
sync_memory_session(tbl, id) ==
    IF IsSome(tbl[id])
    THEN IF now < Unwrap(tbl[id]).expires_at
         THEN SOut("Ok", tbl[id], tbl)
         ELSE SOut("Ok", None, [tbl EXCEPT ![id] = None])
    ELSE SOut("Ok", None, tbl)

\* Faulty variant: expiring a session that is not in the table is an error.
memory_expire_strict(tbl, id) ==
    IF IsSome(tbl[id])
    THEN { SOut("Ok", None, [tbl EXCEPT ![id] = None]) }
    ELSE { SOut("NotFound", None, tbl) }

\* memory::Backend::expire: guard.remove(&session.id); Ok(()).
memory_expire(tbl, id) == { SOut("Ok", None, [tbl EXCEPT ![id] = None]) }

\* Faulty variant: extending a session that is not in the table puts it back.
memory_extend_expiry_date_upsert(tbl, id, expires_at) ==
    LET rec == IF IsSome(tbl[id])
               THEN [Unwrap(tbl[id]) EXCEPT !.expires_at = expires_at]
               ELSE Session(id, 1, expires_at)
    IN { SOut("Ok", Some(rec), [tbl EXCEPT ![id] = Some(rec)]) }

\* memory::Backend::extend_expiry_date: get_mut or NotFound; set; clone.
memory_extend_expiry_date(tbl, id, expires_at) ==
    IF IsSome(tbl[id])
    THEN { SOut("Ok", Some([Unwrap(tbl[id]) EXCEPT !.expires_at = expires_at]),
                [tbl EXCEPT ![id] =
                    Some([Unwrap(tbl[id]) EXCEPT !.expires_at = expires_at])]) }
    ELSE { SOut("NotFound", None, tbl) }

\* Faulty variant: a record expiring at this very instant is not collected.
stale_keys_strict(tbl) ==
    {k \in SessionIds : IsSome(tbl[k]) /\ now > Unwrap(tbl[k]).expires_at}

\* memory::Backend::clear_stale_sessions, under the read lock: the keys whose
\* record has Utc::now() >= expires_at.
stale_keys(tbl) ==
    {k \in SessionIds : IsSome(tbl[k]) /\ now >= Unwrap(tbl[k]).expires_at}

\* memory::Backend::clear_stale_sessions, under the write lock.
remove_keys(tbl, keys) == [k \in SessionIds |-> IF k \in keys THEN None ELSE tbl[k]]

\* DateTime::timestamp(): whole seconds (rounded down).
session_timestamp(t) == t \div SessionTicksPerSec

\* Redis TTL: the remaining time in seconds, rounded to the nearest; -2 for a
\* key that does not exist.
redis_ttl(tbl, id) ==
    IF IsSome(tbl[id])
    THEN (2 * (Unwrap(tbl[id]).expires_at - now) + SessionTicksPerSec)
             \div (2 * SessionTicksPerSec)
    ELSE 0 - 2

\* Redis SET/GETEX .. EXAT s on key session/<id>: the key lives until second
\* s; with s not in the future it is gone at once.
redis_exat(tbl, id, user_id, s) ==
    IF now < s * SessionTicksPerSec
    THEN [tbl EXCEPT ![id] = Some(Session(id, user_id, s * SessionTicksPerSec))]
    ELSE [tbl EXCEPT ![id] = None]

\* session/redis.rs Backend::new_session: pool.get()?, SET .. EXAT
\* expires_at.timestamp(); the record returned carries expires_at itself.
redis_new_session(tbl, id, user_id, expires_at) ==
    { SOut("Pool", None, tbl),
      SOut("Ok", Some(Session(id, user_id, expires_at)),
           redis_exat(tbl, id, user_id, session_timestamp(expires_at))) }

\* session/redis.rs Backend::session: pool.get()?, then GETEX .. EXAT + TTL or
\* GET + TTL in one pipeline; a nil reply is no String (a RedisError); the
\* record returned has expires_at = Utc::now() + Duration::seconds(ttl).
redis_session(tbl, id, extend_expiry) ==
    { SOut("Pool", None, tbl),
      IF tbl[id] = None
      THEN SOut("Redis", None, tbl)
      ELSE LET after ==
                   IF IsSome(extend_expiry)
                   THEN redis_exat(tbl, id, Unwrap(tbl[id]).user_id,
                                   session_timestamp(Unwrap(extend_expiry)))
                   ELSE tbl
           IN SOut("Ok",
                   Some(Session(id, Unwrap(tbl[id]).user_id,
                                now + redis_ttl(after, id) * SessionTicksPerSec)),
                   after) }

\* session/redis.rs Backend::expire: pool.get()?, DEL session/<id>.
redis_expire(tbl, id) ==
    { SOut("Pool", None, tbl), SOut("Ok", None, [tbl EXCEPT ![id] = None]) }

\* session/redis.rs Backend::extend_expiry_date: self.session(id, Some(..)).
redis_extend_expiry_date(tbl, id, expires_at) ==
    redis_session(tbl, id, Some(expires_at))

\* session/redis.rs Backend::clear_stale_sessions: Ok(()).
redis_clear_stale_sessions(tbl) == { SOut("Ok", None, tbl) }

\* session/postgres.rs: every operation is todo!().
postgres_todo(tbl) == { SOut("panic", None, tbl) }

(***************************************************************************)
(* SessionHandler (session.rs) and SessionManager (session/mod.rs) over    *)
(* the backend in use.                                                     *)
(***************************************************************************)
\* The backend's operations, by the backend in use.
backend_new_session(tbl, id, user_id, expires_at) ==
    CASE variant \in {"handler", "memory"} ->
             memory_new_session(tbl, id, user_id, expires_at)
      [] variant = "redis" -> redis_new_session(tbl, id, user_id, expires_at)
      [] OTHER -> postgres_todo(tbl)

backend_session(tbl, id, extend_expiry) ==
    CASE variant = "memory" -> memory_session(tbl, id, extend_expiry)
      [] variant = "redis" -> redis_session(tbl, id, extend_expiry)
      [] OTHER -> postgres_todo(tbl)

backend_expire(tbl, id) ==
    CASE variant \in {"handler", "memory"} -> memory_expire(tbl, id)
      [] variant = "redis" -> redis_expire(tbl, id)
      [] OTHER -> postgres_todo(tbl)

backend_extend_expiry_date(tbl, id, expires_at) ==
    CASE variant \in {"handler", "memory"} ->
             memory_extend_expiry_date(tbl, id, expires_at)
      [] variant = "redis" -> redis_extend_expiry_date(tbl, id, expires_at)
      [] OTHER -> postgres_todo(tbl)

\* SessionHandler::new_session / SessionManager::new_session:
\* expires_at = Utc::now() + alive_duration, then the backend.
SessionManager_new_session(tbl, id, user_id) ==
    backend_new_session(tbl, id, user_id, now + alive_duration)

\* Faulty variant: the read refreshes the session whatever auto_refresh says.
SessionHandler_session_always_refresh(tbl, id) ==
    LET found == sync_memory_session(tbl, id) IN
    IF IsSome(found.rec)
    THEN memory_extend_expiry_date(found.sessions, id, now + alive_duration)
    ELSE { found }

\* SessionHandler::session: the backend's read and, under auto_refresh and
\* for a record found, extend_expiry_date to Utc::now() + alive_duration.
SessionHandler_session(tbl, id) ==
    LET found == sync_memory_session(tbl, id) IN
    IF auto_refresh /\ IsSome(found.rec)
    THEN memory_extend_expiry_date(found.sessions, id, now + alive_duration)
    ELSE { found }

\* SessionManager::session: under auto_refresh the read carries the refresh
\* target now + alive_duration, otherwise it is a plain read.
SessionManager_session(tbl, id) ==
    IF variant = "handler"
    THEN SessionHandler_session(tbl, id)
    ELSE backend_session(tbl, id,
                         IF auto_refresh THEN Some(now + alive_duration) ELSE None)

\* The expiry a caller may ask extend_expiry_date for: SessionHandler passes
\* Utc::now() + alive_duration; SessionManager passes the caller's own.
ExtendTargets ==
    IF variant = "handler"
    THEN {now + alive_duration}
    ELSE {now + alive_duration, now + SessionTicksPerSec}

NoOp == [op |-> "none", id |-> 0, res |-> "", rec |-> None]
Did(op, id, o) == [op |-> op, id |-> id, res |-> o.res, rec |-> o.rec]

\* The single-threaded SessionHandler runs no operation inside another one.
CanRun == variant = "handler" => sweep = None

SessionInit ==
    /\ variant \in SessionVariants
    /\ auto_refresh \in BOOLEAN
    /\ alive_duration \in AliveDurations
    /\ sessions = [i \in SessionIds |-> None]
    /\ nextSession = 0
    /\ sweep = None
    /\ last = NoOp

new_session(user_id) ==
    /\ CanRun
    /\ nextSession < MaxSessions
    /\ \E o \in SessionManager_new_session(sessions, nextSession + 1, user_id) :
        /\ sessions' = o.sessions
        /\ nextSession' = IF o.res = "Ok" THEN nextSession + 1 ELSE nextSession
        /\ last' = Did("new_session", IF o.res = "Ok" THEN nextSession + 1 ELSE 0, o)
    /\ UNCHANGED << now, variant, auto_refresh, alive_duration, sweep,
                    appauthVars, resetVars, strategyVars, usernameVars, createVars >>

session(id) ==
    /\ CanRun
    /\ \E o \in SessionManager_session(sessions, id) :
        /\ sessions' = o.sessions
        /\ last' = Did("session", id, o)
    /\ UNCHANGED << now, variant, auto_refresh, alive_duration, nextSession, sweep,
                    appauthVars, resetVars, strategyVars, usernameVars, createVars >>

\* The caller holds a session a backend returned earlier (only its id is used).
extend_expiry_date(id, expires_at) ==
    /\ CanRun
    /\ id <= nextSession
    /\ \E o \in backend_extend_expiry_date(sessions, id, expires_at) :
        /\ sessions' = o.sessions
        /\ last' = Did("extend_expiry_date", id, o)
    /\ UNCHANGED << now, variant, auto_refresh, alive_duration, nextSession, sweep,
                    appauthVars, resetVars, strategyVars, usernameVars, createVars >>

expire(id) ==
    /\ CanRun
    /\ id <= nextSession
    /\ \E o \in backend_expire(sessions, id) :
        /\ sessions' = o.sessions
        /\ last' = Did("expire", id, o)
    /\ UNCHANGED << now, variant, auto_refresh, alive_duration, nextSession, sweep,
                    appauthVars, resetVars, strategyVars, usernameVars, createVars >>

\* clear_stale_sessions: the in-memory backends collect the stale keys under
\* the read lock; the others return at once.
clear_stale_sessions_collect ==
    /\ sweep = None
    /\ IF variant \in {"handler", "memory"}
       THEN /\ sweep' = Some(stale_keys(sessions))
            /\ UNCHANGED last
       ELSE /\ \E o \in IF variant = "redis"
                        THEN redis_clear_stale_sessions(sessions)
                        ELSE postgres_todo(sessions) :
                  last' = Did("clear_stale_sessions", 0, o)
            /\ UNCHANGED sweep
    /\ UNCHANGED << now, variant, auto_refresh, alive_duration, sessions,
                    nextSession, appauthVars, resetVars, strategyVars, usernameVars, createVars >>

\* clear_stale_sessions: the collected keys are removed under the write lock.
clear_stale_sessions_remove ==
    /\ sweep # None
    /\ sessions' = remove_keys(sessions, Unwrap(sweep))
    /\ sweep' = None
    /\ last' = [NoOp EXCEPT !.op = "clear_stale_sessions", !.res = "Ok"]
    /\ UNCHANGED << now, variant, auto_refresh, alive_duration, nextSession,
                    appauthVars, resetVars, strategyVars, usernameVars, createVars >>

\* Time passes; Redis drops the keys whose EXAT second has come.
SessionTick ==
    /\ now < MaxSessionTime
    /\ now' = now + 1
    /\ sessions' = IF variant = "redis"
                   THEN [k \in SessionIds |->
                           IF IsSome(sessions[k])
                              /\ now + 1 < Unwrap(sessions[k]).expires_at
                           THEN sessions[k] ELSE None]
                   ELSE sessions
    /\ UNCHANGED << variant, auto_refresh, alive_duration, nextSession, sweep, last,
                    appauthVars, resetVars, strategyVars, usernameVars, createVars >>

SessionNext ==
    \/ \E u \in UserIds : new_session(u)
    \/ \E i \in SessionIds : session(i)
    \/ \E i \in SessionIds, t \in ExtendTargets : extend_expiry_date(i, t)
    \/ \E i \in SessionIds : expire(i)
    \/ clear_stale_sessions_collect
    \/ clear_stale_sessions_remove
    \/ SessionTick

(***************************************************************************)
(* Argon2idStrategy::new                                                   *)
(***************************************************************************)
\* Faulty variant: parallelism_degree is not checked.
Argon2idStrategy_new_lax(pepper_len, memory_mib, iteration_count, parallelism_degree) ==
    IF pepper_len < MinPepperLen THEN [res |-> "PepperTooWeak"]
    ELSE IF memory_mib < MinMemoryMib THEN [res |-> "MemoryUseTooWeak"]
    ELSE IF iteration_count < MinIterationCount THEN [res |-> "IterationTooWeak"]
    ELSE [res |-> "Ok", pepper_len |-> pepper_len, memory_mib |-> memory_mib,
          iteration_count |-> iteration_count,
          parallelism_degree |-> parallelism_degree]

\* The checks in the order of the source; the pepper enters by its length.
Argon2idStrategy_new(pepper_len, memory_mib, iteration_count, parallelism_degree) ==
    IF pepper_len < MinPepperLen THEN [res |-> "PepperTooWeak"]
    ELSE IF memory_mib < MinMemoryMib THEN [res |-> "MemoryUseTooWeak"]
    ELSE IF iteration_count < MinIterationCount THEN [res |-> "IterationTooWeak"]
    ELSE IF parallelism_degree < MinParallelismDegree
    THEN [res |-> "ParallelismTooWeak"]
    ELSE [res |-> "Ok", pepper_len |-> pepper_len, memory_mib |-> memory_mib,
          iteration_count |-> iteration_count,
          parallelism_degree |-> parallelism_degree]

\* The values tried around a minimum (unsigned: none below 0).
Around(min) == {v \in (min - ParamSlack)..(min + ParamSlack) : v >= 0}

MinimalParams ==
    [pepper_len |-> MinPepperLen, memory_mib |-> MinMemoryMib,
     iteration_count |-> MinIterationCount,
     parallelism_degree |-> MinParallelismDegree, overflow_checks |-> TRUE]

\* The passwords tried: the three of the reset flow and one of half as many
\* characters, each two bytes long.
StrategyPasswords == Passwords \cup { Rep("e_acute", MinPasswordLen \div 2) }

\* The argon2 crate's hash_password: the PHC hash carries the algorithm, the
\* parameters, the salt and the output; the output is taken as an injective
\* function of all that enters it (the pepper enters by its length).
hash_password(self, m_cost, t_cost, p_cost, salt, input) ==
    [wellformed |-> TRUE, m_cost |-> m_cost, t_cost |-> t_cost, p_cost |-> p_cost,
     salt |-> salt,
     output |-> << self.pepper_len, m_cost, t_cost, p_cost, salt, input >>]

\* A stored string that PasswordHash::new cannot parse.
Malformed == [wellformed |-> FALSE]

\* Argon2idStrategy::argon2_instance: self.memory_mib * 1024 is a u32
\* product, which panics on overflow in a build with overflow checks and
\* wraps in one without; Argon2::new(..).unwrap() then panics when the argon2
\* crate refuses the cost (fewer than 8 KiB for each lane).  The product
\* leaves u32 exactly when memory_mib >= 2^32 / 1024 = 2^22, and
\* (memory_mib * 1024) % 2^32 = (memory_mib % 2^22) * 1024.
argon2_instance(self) ==
    LET wrapped == (self.memory_mib % (2^22)) * 1024 IN
    IF self.memory_mib >= 2^22 /\ params.overflow_checks
    THEN [panic |-> TRUE]
    ELSE IF wrapped < 8 * self.parallelism_degree
         THEN [panic |-> TRUE]
         ELSE [panic |-> FALSE, m_cost |-> wrapped]

\* Argon2idStrategy::generate_password_hash: input.len() < 8 counts bytes;
\* Params.m_cost is the same product as in argon2_instance.
Argon2idStrategy_generate_password_hash(self, input, salt) ==
    IF ByteLen(input) < MinPasswordLen
    THEN [res |-> "PasswordTooShort"]
    ELSE IF argon2_instance(self).panic
         THEN [res |-> "panic"]
         ELSE [res |-> "Ok",
               hash |-> hash_password(self, argon2_instance(self).m_cost,
                                      self.iteration_count,
                                      self.parallelism_degree, salt, input)]

\* Argon2idStrategy::verify_password: argon2_instance() first, then
\* PasswordHash::new(hash)?, then argon2's verify_password recomputes the
\* output from the hash's own parameters and salt; Ok -> true,
\* Error::Password -> false.
Argon2idStrategy_verify_password(self, hash, input) ==
    IF argon2_instance(self).panic
    THEN [res |-> "panic"]
    ELSE IF ~hash.wellformed
    THEN [res |-> "Argon2PasswordHash"]
    ELSE [res |-> "Ok",
          val |-> hash_password(self, hash.m_cost, hash.t_cost, hash.p_cost,
                                hash.salt, input).output = hash.output]

\* user/postgres.rs Backend::verify_password: the strategy's error with `?`,
\* true -> Ok(()), false -> Err(Error::InvalidPassword).
Backend_verify_password(self, password_hash, input) ==
    LET r == Argon2idStrategy_verify_password(self, password_hash, input) IN
    IF r.res = "panic" THEN "panic"
    ELSE IF r.res # "Ok" THEN "Password"
    ELSE IF r.val THEN "Ok" ELSE "InvalidPassword"

StrategyInit ==
    /\ params \in [pepper_len : Around(MinPepperLen),
                   memory_mib : Around(MinMemoryMib)
                                \cup {MaxMemoryMib - 1, MaxMemoryMib},
                   iteration_count : Around(MinIterationCount),
                   parallelism_degree : Around(MinParallelismDegree),
                   overflow_checks : BOOLEAN]
    /\ strategy = None
    /\ password \in StrategyPasswords
    /\ attempt \in StrategyPasswords
    /\ stored = None
    /\ checked = None

\* The caller constructs the strategy from its arguments.
new_strategy ==
    /\ strategy = None
    /\ strategy' = Some(Argon2idStrategy_new(params.pepper_len, params.memory_mib,
                                             params.iteration_count,
                                             params.parallelism_degree))
    /\ UNCHANGED << now, params, password, attempt, stored, checked,
                    appauthVars, resetVars, sessionVars, usernameVars, createVars >>

\* The strategy constructed hashes the password, with a salt drawn at random.
hash_the_password ==
    /\ IsSome(strategy) /\ Unwrap(strategy).res = "Ok"
    /\ stored = None
    /\ \E salt \in Salts :
          stored' = Some(Argon2idStrategy_generate_password_hash(
                             Unwrap(strategy), password, salt))
    /\ UNCHANGED << now, params, strategy, password, attempt, checked,
                    appauthVars, resetVars, sessionVars, usernameVars, createVars >>

\* The attempt is verified against a stored hash (the one generated, or a
\* damaged one), by the strategy and by the user backend.
verify_the_attempt ==
    /\ IsSome(strategy) /\ Unwrap(strategy).res = "Ok"
    /\ IsSome(stored)
    /\ checked = None
    /\ \E hash \in { Malformed } \cup
                     (IF IsSome(stored) /\ Unwrap(stored).res = "Ok"
                      THEN { Unwrap(stored).hash } ELSE { }) :
          checked' = Some([hash |-> hash,
                           verify |-> Argon2idStrategy_verify_password(
                                          Unwrap(strategy), hash, attempt),
                           login |-> Backend_verify_password(
                                          Unwrap(strategy), hash, attempt)])
    /\ UNCHANGED << now, params, strategy, password, attempt, stored,
                    appauthVars, resetVars, sessionVars, usernameVars, createVars >>

StrategyNext ==
    \/ new_strategy
    \/ hash_the_password
    \/ verify_the_attempt

(***************************************************************************)
(* The identifier policies (username/ascii.rs, username/email.rs) and the  *)
(* Username<T> wrapper (username/mod.rs).  An identifier is a sequence of  *)
(* characters; E_acute / e_acute stand for a letter outside ASCII in its   *)
(* two cases.                                                              *)
(***************************************************************************)
Names ==
    UNION { [1..n -> {"A", "a", "b", "E_acute", "e_acute"}] : n \in 1..MaxNameLen }

\* char::is_ascii
is_ascii(c) == c \notin {"E_acute", "e_acute"}

\* The character's code point (UTF-8 orders strings as their code points do).
CodePoint(c) ==
    CASE c = "A" -> 65 [] c = "a" -> 97 [] c = "b" -> 98
      [] c = "E_acute" -> 201 [] OTHER -> 233

\* str::to_ascii_lowercase: only the ASCII letters A-Z are mapped.
to_ascii_lowercase(s) ==
    [i \in 1..Len(s) |-> IF s[i] = "A" THEN "a" ELSE s[i]]

\* str::len() of an identifier, in bytes.
NameBytes(s) == ByteLen([i \in 1..Len(s) |-> IF is_ascii(s[i]) THEN "a" ELSE "e_acute"])

\* AsciiUsername::from_str (the characters modelled are all graphic, none is
\* white space).
AsciiUsername_from_str(value) ==
    IF Len(value) = 0 THEN [res |-> "Empty"]
    ELSE IF NameBytes(value) > MaxUsernameBytes THEN [res |-> "UsernameTooLong"]
    ELSE IF \E i \in 1..Len(value) : ~is_ascii(value[i]) THEN [res |-> "NonAscii"]
    ELSE [res |-> "Ok", val |-> value]

\* EmailUsername::from_str; valid is what the validator crate's
\* validate_email(value) answers.
EmailUsername_from_str(value, valid) ==
    IF Len(value) = 0 THEN [res |-> "Empty"]
    ELSE IF NameBytes(value) > MaxUsernameBytes THEN [res |-> "UsernameTooLong"]
    ELSE IF ~valid THEN [res |-> "NotValidEmail"]
    ELSE [res |-> "Ok", val |-> value]

\* validate_email: an address of ASCII letters is taken as valid; one with
\* other letters (an internationalized domain) may be accepted or not.
validate_email(value) ==
    IF \A i \in 1..Len(value) : is_ascii(value[i]) THEN {TRUE} ELSE BOOLEAN

\* Ord for String: lexicographic by bytes.
RECURSIVE str_cmp(_, _)
str_cmp(x, y) ==
    IF x = << >> /\ y = << >> THEN "Equal"
    ELSE IF x = << >> THEN "Less"
    ELSE IF y = << >> THEN "Greater"
    ELSE IF CodePoint(Head(x)) < CodePoint(Head(y)) THEN "Less"
    ELSE IF CodePoint(Head(x)) > CodePoint(Head(y)) THEN "Greater"
    ELSE str_cmp(Tail(x), Tail(y))

\* impl PartialEq / Ord / Hash for AsciiUsername and for EmailUsername (the
\* same bodies): each goes through to_ascii_lowercase.
policy_eq(x, y) == to_ascii_lowercase(x) = to_ascii_lowercase(y)
policy_cmp(x, y) == str_cmp(to_ascii_lowercase(x), to_ascii_lowercase(y))
\* What is fed to the Hasher.
policy_hash(x) == to_ascii_lowercase(x)

\* #[derive(PartialEq, Eq, PartialOrd, Ord, Hash)] struct Username<T>(T):
\* each delegates to the field's implementation.
Username_eq(x, y) == policy_eq(x, y)
Username_cmp(x, y) == policy_cmp(x, y)
Username_hash(x) == policy_hash(x)

UsernameInit ==
    /\ idents \in [policy : {"AsciiUsername", "EmailUsername"},
                    a : Names, b : Names]
    /\ parsed = None
    /\ compared = None
    /\ listed = None

\* Both strings are parsed under the policy.
parse_usernames ==
    /\ parsed = None
    /\ \E va \in validate_email(idents.a), vb \in validate_email(idents.b) :
          parsed' = Some(IF idents.policy = "AsciiUsername"
                         THEN [a |-> AsciiUsername_from_str(idents.a),
                               b |-> AsciiUsername_from_str(idents.b)]
                         ELSE [a |-> EmailUsername_from_str(idents.a, va),
                               b |-> EmailUsername_from_str(idents.b, vb)])
    /\ UNCHANGED << now, idents, compared, listed,
                    appauthVars, resetVars, sessionVars, strategyVars, createVars >>

\* Two identifiers that parsed are compared and hashed, as the policy type
\* and wrapped in Username<T>.
compare_usernames ==
    /\ IsSome(parsed) /\ compared = None
    /\ Unwrap(parsed).a.res = "Ok" /\ Unwrap(parsed).b.res = "Ok"
    /\ LET x == Unwrap(parsed).a.val
           y == Unwrap(parsed).b.val
       IN compared' = Some([eq |-> policy_eq(x, y), cmp |-> policy_cmp(x, y),
                            hash_a |-> policy_hash(x), hash_b |-> policy_hash(y),
                            wrapped_eq |-> Username_eq(x, y),
                            wrapped_cmp |-> Username_cmp(x, y),
                            wrapped_hash_a |-> Username_hash(x),
                            wrapped_hash_b |-> Username_hash(y)])
    /\ UNCHANGED << now, idents, parsed, listed,
                    appauthVars, resetVars, sessionVars, strategyVars, createVars >>

\* database::list_users: fetch_all(..).await?, then each row's username is
\* parsed (a failure becomes Err(sqlx::Error::Decode)) and
\* .flat_map(|u| u.ok()) keeps the rows that decoded; decoded[i] is what
\* raw_username.parse() returned for row i.
database_list_users(fetched, rows, decoded) ==
    IF ~fetched THEN [res |-> "Sqlx"]
    ELSE LET mapped == [i \in 1..Len(rows) |->
                           IF decoded[i].res = "Ok"
                           THEN [ok |-> TRUE,
                                 user |-> [id |-> rows[i].id,
                                           username |-> decoded[i].val]]
                           ELSE [ok |-> FALSE, err |-> "Decode"]]
             kept == SelectSeq(mapped, LAMBDA u : u.ok)
         IN [res |-> "Ok", users |-> [i \in 1..Len(kept) |-> kept[i].user]]

\* Backend::list_users over a users table whose two rows hold the two
\* strings: pg_pool.acquire().await?, then database::list_users(..).await?.
list_users ==
    /\ listed = None
    /\ \E acquired, fetched \in BOOLEAN,
          va \in validate_email(idents.a), vb \in validate_email(idents.b) :
          listed' = Some(IF ~acquired THEN [res |-> "Sqlx"]
                         ELSE database_list_users(fetched,
                                << [id |-> 1, username |-> idents.a],
                                   [id |-> 2, username |-> idents.b] >>,
                                IF idents.policy = "AsciiUsername"
                                THEN << AsciiUsername_from_str(idents.a),
                                        AsciiUsername_from_str(idents.b) >>
                                ELSE << EmailUsername_from_str(idents.a, va),
                                        EmailUsername_from_str(idents.b, vb) >>))
    /\ UNCHANGED << now, idents, parsed, compared,
                    appauthVars, resetVars, sessionVars, strategyVars, createVars >>

UsernameNext ==
    \/ parse_usernames
    \/ compare_usernames
    \/ list_users

(***************************************************************************)
(* Backend::create_user (user/postgres.rs): BEGIN, hash, INSERT, read      *)
(* back, COMMIT.  users holds the committed rows; a transaction's own row  *)
(* is in txn until COMMIT succeeds, and is lost when the Transaction is    *)
(* dropped on an early return.                                             *)
(***************************************************************************)
Creators == 1..NumCreators
\* NewUser { id: Option<UserId>, username, password, meta }
NewUsers ==
    [id : {None} \cup {Some(u) : u \in UserIds},
     username : {username_of(u) : u \in UserIds},
     password : {Rep("a", MinPasswordLen - 1), Rep("a", MinPasswordLen)}]

TIdle ==
    [pc |-> "idle", new |-> None, hash |-> None, row |-> None,
     inserted |-> FALSE, at |-> "", res |-> "", ret |-> None]

\* Caller q's open transaction has inserted a row with this id.
HoldsId(q, id) == IsSome(txn[q].row) /\ Unwrap(txn[q].row).id = id

\* The ids no committed row and no open transaction's row has.
UnusedUserIds ==
    {u \in UserIds : users[u] = None /\ \A q \in Creators : ~HoldsId(q, u)}

\* The call returns: the Transaction is dropped and with it the row it had
\* not committed.
Return(p, res, ret) ==
    txn' = [txn EXCEPT ![p].pc = "done", ![p].at = txn[p].pc, ![p].res = res,
                       ![p].ret = ret, ![p].row = None]

CreateRest == txn = [p \in Creators |-> TIdle]

\* let mut conn = self.pool.begin().await?;
create_user_begin(p, user) ==
    /\ txn[p].pc \in {"idle", "done"}
    /\ \E ok \in BOOLEAN :
        txn' = [txn EXCEPT ![p] =
                  IF ok THEN [TIdle EXCEPT !.pc = "hash", !.new = Some(user)]
                  ELSE [TIdle EXCEPT !.pc = "done", !.new = Some(user),
                                     !.at = "begin", !.res = "Sqlx"]]
    /\ UNCHANGED << now, appauthVars, resetVars, sessionVars, strategyVars,
                    usernameVars >>

\* strategy.generate_password_hash(user.password.expose_secret())?
create_user_hash(p, salt) ==
    /\ txn[p].pc = "hash"
    /\ LET h == generate_password_hash(Unwrap(txn[p].new).password, salt) IN
       IF h.ok
       THEN txn' = [txn EXCEPT ![p].pc = "insert", ![p].hash = Some(h.hash)]
       ELSE Return(p, h.err, None)
    /\ UNCHANGED << now, appauthVars, resetVars, sessionVars, strategyVars,
                    usernameVars >>

\* database::insert_user_with_id / insert_user (..).await? : the row is
\* written inside the transaction; with no id given, RETURNING id is the next
\* id of the sequence.  An INSERT of an id another open
\* transaction has inserted waits for that transaction.
create_user_insert(p) ==
    /\ txn[p].pc = "insert"
    /\ LET new == Unwrap(txn[p].new)
           given == IsSome(new.id)
           id == IF given THEN Unwrap(new.id)
                 ELSE IF UnusedUserIds # {}
                 THEN CHOOSE u \in UnusedUserIds : \A v \in UnusedUserIds : u <= v
                 ELSE NoSuchUser
       IN /\ \A q \in Creators : ~HoldsId(q, id)
          /\ \E ok \in BOOLEAN :
               IF ok /\ id \in UserIds /\ users[id] = None
               THEN txn' = [txn EXCEPT
                       ![p].pc = "find", ![p].inserted = TRUE,
                       ![p].row = Some([id |-> id, username |-> new.username,
                                        password_hash |-> Unwrap(txn[p].hash)])]
               ELSE txn' = [txn EXCEPT
                       ![p].pc = "done", ![p].inserted = TRUE,
                       ![p].at = "insert", ![p].res = "Sqlx"]
    /\ UNCHANGED << now, appauthVars, resetVars, sessionVars, strategyVars,
                    usernameVars >>

\* Faulty variant: the INSERT is not inside a transaction, so a failed read
\* back leaves the row behind.
create_user_find_autocommit(p) ==
    /\ txn[p].pc = "find"
    /\ \E ok \in BOOLEAN :
        IF ok
        THEN /\ txn' = [txn EXCEPT ![p].pc = "commit", ![p].ret = txn[p].row]
             /\ users' = users
        ELSE /\ Return(p, "Sqlx", None)
             /\ users' = [users EXCEPT ![Unwrap(txn[p].row).id] = txn[p].row]
    /\ UNCHANGED << now, appauthVars, backend, resets, nextReset, rcall,
                    sessionVars, strategyVars, usernameVars >>

\* database::find_user_by_id(&mut conn, user_id, ..).await? : the
\* transaction reads its own row back.
create_user_find(p) ==
    /\ txn[p].pc = "find"
    /\ \E ok \in BOOLEAN :
        IF ok
        THEN txn' = [txn EXCEPT ![p].pc = "commit", ![p].ret = txn[p].row]
        ELSE Return(p, "Sqlx", None)
    /\ users' = users
    /\ UNCHANGED << now, appauthVars, backend, resets, nextReset, rcall,
                    sessionVars, strategyVars, usernameVars >>

\* conn.commit().await? ; Ok(user)
create_user_commit(p) ==
    /\ txn[p].pc = "commit"
    /\ \E ok \in BOOLEAN :
        IF ok
        THEN /\ users' = [users EXCEPT ![Unwrap(txn[p].row).id] = txn[p].row]
             /\ Return(p, "Ok", txn[p].ret)
        ELSE /\ users' = users
             /\ Return(p, "Sqlx", None)
    /\ UNCHANGED << now, appauthVars, backend, resets, nextReset, rcall,
                    sessionVars, strategyVars, usernameVars >>

CreateNext ==
    \/ \E p \in Creators, user \in NewUsers : create_user_begin(p, user)
    \/ \E p \in Creators, salt \in Salts : create_user_hash(p, salt)
    \/ \E p \in Creators : create_user_insert(p)
    \/ \E p \in Creators : create_user_find(p)
    \/ \E p \in Creators : create_user_commit(p)

(***************************************************************************)
(* The specifications.                                                     *)
(***************************************************************************)
\* Each specification runs one part of the library; the parts it does not
\* run rest in one fixed configuration.
SessionRest ==
    /\ variant = "memory" /\ auto_refresh = FALSE
    /\ alive_duration = SessionTicksPerSec
    /\ SessionInit

StrategyRest ==
    /\ params = MinimalParams
    /\ password = Rep("a", MinPasswordLen) /\ attempt = Rep("a", MinPasswordLen)
    /\ StrategyInit

UsernameRest ==
    /\ idents = [policy |-> "AsciiUsername", a |-> << "a" >>, b |-> << "a" >>]
    /\ UsernameInit

Init ==
    /\ AppAuthInit /\ ResetInit /\ SessionRest /\ StrategyRest /\ UsernameRest
    /\ CreateRest

\* The AppAuth backend with its callers and environment.
InitAppAuth == Init /\ backend = "trait"

SpecAppAuth == InitAppAuth /\ [][AppAuthNext]_vars

\* The password-reset flow over each session backend.
SpecReset == Init /\ [][ResetNext]_vars

\* The session backends under SessionHandler / SessionManager.
InitSession ==
    /\ AppAuthInit /\ ResetInit /\ backend = "trait"
    /\ SessionInit /\ StrategyRest /\ UsernameRest /\ CreateRest

SpecSession == InitSession /\ [][SessionNext]_vars

\* Argon2idStrategy::new over the arguments around its minimums.
InitStrategy ==
    /\ AppAuthInit /\ ResetInit /\ backend = "trait"
    /\ SessionRest /\ StrategyInit /\ UsernameRest /\ CreateRest

SpecStrategy == InitStrategy /\ [][StrategyNext]_vars

\* The identifier policies over pairs of short identifiers.
InitUsername ==
    /\ AppAuthInit /\ ResetInit /\ backend = "trait"
    /\ SessionRest /\ StrategyRest /\ UsernameInit /\ CreateRest

SpecUsername == InitUsername /\ [][UsernameNext]_vars

\* create_user by concurrent callers on an empty users table.
InitCreate ==
    /\ AppAuthInit
    /\ backend = "trait"
    /\ resets = [r \in ResetIds |-> None]
    /\ nextReset = 0
    /\ users = [u \in UserIds |-> None]
    /\ rcall = [p \in ResetCallers |-> RIdle]
    /\ CreateRest
    /\ SessionRest /\ StrategyRest /\ UsernameRest

SpecCreate == InitCreate /\ [][CreateNext]_vars

(***************************************************************************)
(* Properties of the AppAuth backend (checked under SpecAppAuth).          *)
(***************************************************************************)
\* The step is caller p entering verify_token (its cache lookup).
VerifyGetStep(p) ==
    Free(p) /\ call'[p] # call[p] /\ call'[p].op = "verify"

\* ... and the cache answered: neither the pool nor the GET failed.
CacheAnswered(p) ==
    ~(call'[p].pc = "done" /\ call'[p].res \in {"RedisPool", "Redis"})

\* The cache holds token t for id while the durable record holds another.
Stale(id, t) ==
    /\ redis_get(redis, id) = Some(t)
    /\ IsSome(pg[id])
    /\ Unwrap(pg[id]).token # t

\* What a direct cache read returns once appauth has been SET at time `now`:
\* its token, or nothing when its expiry second has already been reached.
CacheAfterSet(appauth) ==
    IF appauth.expires_at = None
       \/ now < timestamp(Unwrap(appauth.expires_at)) * TicksPerSec
    THEN Some(appauth.token)
    ELSE None

\* C1 as stated: with the cache holding T1 and the durable record rotated to
\* another token, verify_token(id, T1) does not succeed: it fails with
\* InvalidToken and the cache then holds the durable token.
C1_StaleTokenRejected ==
    [][\A p \in Callers :
          (VerifyGetStep(p) /\ CacheAnswered(p)
              /\ Stale(call'[p].id, call'[p].token))
          => /\ call'[p].res # "Ok"
             /\ call'[p].pc = "done"
                  => redis_get(redis', call'[p].id) = Some(Unwrap(pg[call'[p].id]).token)
      ]_vars

\* C1, amended: with the cache holding T1 and the durable record rotated to
\* another token, verify_token(id, T1) is decided at the stale cache: it returns
\* Ok without consulting the durable store, and the cache still holds T1.
C1_StaleTokenAccepted ==
    [][\A p \in Callers :
          (VerifyGetStep(p) /\ CacheAnswered(p)
              /\ Stale(call'[p].id, call'[p].token))
          => /\ call'[p].pc = "done"
             /\ call'[p].res = "Ok"
             /\ ~call'[p].db
             /\ redis' = redis
             /\ redis_get(redis', call'[p].id) = Some(call'[p].token)
      ]_vars

\* C1's case: a verify_token call has returned Ok from the cache for a token
\* the durable record no longer holds.
C1_Witness ==
    \E p \in Callers :
        /\ call[p].pc = "done" /\ call[p].op = "verify"
        /\ call[p].res = "Ok" /\ ~call[p].db
        /\ Stale(call[p].id, call[p].token)

\* create_appauth has returned the AppAuth with this id to a caller.
Created(id) ==
    \E q \in Callers :
        /\ call[q].pc = "done" /\ call[q].op = "create"
        /\ call[q].res = "Ok" /\ call[q].id = id

\* C2 as stated: after create_appauth, a verify_token call that found the
\* cache empty and matched the durable record returns Ok and leaves the cache
\* holding the token.
C2_ColdCacheBackfilled ==
    [][\A p \in Callers :
          (call[p].pc = "v_find" /\ call[p].seen = None /\ Created(call[p].id)
              /\ call'[p].pc = "done" /\ call'[p].res = "Ok")
          => redis_get(redis', call[p].id) = Some(call[p].token)
      ]_vars

\* C3: verify_token returns Ok with no durable-store access whenever the cache
\* lookup yields the presented token, and a call goes to the durable store only
\* after a cache miss or a cached value different from the presented token.
C3_CacheHitSkipsDurable ==
    [][\A p \in Callers :
          /\ (VerifyGetStep(p) /\ CacheAnswered(p)
                 /\ redis_get(redis, call'[p].id) = Some(call'[p].token))
             => (call'[p].pc = "done" /\ call'[p].res = "Ok" /\ ~call'[p].db)
          /\ (call'[p].op = "verify" /\ call'[p].db /\ ~call[p].db)
             => (call[p].pc = "v_find" /\ call[p].seen # Some(call[p].token))
          /\ (VerifyGetStep(p) /\ call'[p].pc = "v_find")
             => call'[p].seen = redis_get(redis, call'[p].id)
      ]_vars

\* C3's case: a call was decided at the cache, without the durable store.
C3_Witness ==
    \E p \in Callers :
        /\ call[p].pc = "done" /\ call[p].op = "verify"
        /\ call[p].res = "Ok" /\ ~call[p].db
        /\ redis_get(redis, call[p].id) = Some(call[p].token)

HealedFor(id, t) ==
    /\ \E q \in Callers :
          /\ call[q].pc = "done" /\ call[q].op = "verify"
          /\ call[q].res = "InvalidToken"
          /\ call[q].id = id /\ call[q].token = t
    /\ IsSome(pg[id])
    /\ Unwrap(pg[id]).token # t
    /\ redis_get(redis, id) = Some(Unwrap(pg[id]).token)

\* C5 as stated: after a wrong-token call has rewritten the cache with the
\* durable token, the next call with the same wrong token is decided at the
\* cache, with no durable-store access.
C5_RepeatDecidedAtCache ==
    [][\A p \in Callers :
          (VerifyGetStep(p) /\ CacheAnswered(p)
              /\ HealedFor(call'[p].id, call'[p].token))
          => (call'[p].pc = "done" /\ ~call'[p].db)
      ]_vars

\* C5, amended: after a wrong-token call has rewritten the cache with the
\* durable token, the next call with the same wrong token is not decided at
\* the cache: it reads the durable token there, which differs from its own,
\* and goes on to consult the durable store again.
C5_RepeatConsultsDurable ==
    [][\A p \in Callers :
          (VerifyGetStep(p) /\ CacheAnswered(p)
              /\ HealedFor(call'[p].id, call'[p].token))
          => /\ call'[p].pc = "v_find"
             /\ call'[p].seen = Some(Unwrap(pg[call'[p].id]).token)
      ]_vars

\* C5's case: with one wrong-token call returned and the cache healed, a second
\* call with the same wrong token stands before the durable store.
C5_Witness ==
    \E p \in Callers :
        /\ call[p].pc = "v_find"
        /\ HealedFor(call[p].id, call[p].token)
        /\ call[p].seen = Some(Unwrap(pg[call[p].id]).token)

\* C6 as stated: once the insert and the read-back have succeeded,
\* create_appauth returns the AppAuth read back, whatever the cache write does.
C6_CreateToleratesCacheFailure ==
    [][\A p \in Callers :
          (call[p].pc = "c_set" /\ call'[p].pc = "done")
          => (call'[p].res = "Ok" /\ call'[p].rec = call[p].rec)
      ]_vars

\* C7 as stated: verify_token never fails with a cache error; its result is
\* Ok, InvalidToken or the durable store's error.
C7_CacheErrorsNotFatal ==
    \A p \in Callers :
        (call[p].pc = "done" /\ call[p].op = "verify" /\ IsSome(pg[call[p].id]))
        => call[p].res \in {"Ok", "InvalidToken", "Sqlx"}

(***************************************************************************)
(* Claims about the password-reset flow (SpecReset).                       *)
(***************************************************************************)
InitialHash == generate_password_hash(Rep("a", MinPasswordLen), 1).hash

\* Caller p holds a user id that a consume of its reset id returned.
Consumed(p) == rcall[p].op \in {"reset", "consume"} /\ IsSome(rcall[p].uid)

\* C8 as stated: every issuance yields an id (or the backend's storage error),
\* a consumption returns the bound user id or fails with NotFound (or the
\* storage error), and no reset id is consumed successfully twice.
C8_ConsumeSucceedsOnce ==
    /\ \A p \in ResetCallers :
          (rcall[p].pc = "done" /\ rcall[p].op \in {"generate", "consume"})
          => rcall[p].res \in {"Ok", "NotFound", "BackendError"}
    /\ \A p, q \in ResetCallers :
          (p # q /\ Consumed(p) /\ Consumed(q)) => rcall[p].rid # rcall[q].rid

\* C9: reset_password goes past its consume step only when the consume
\* succeeded, and then holds the user id bound to the consumed reset id; a
\* failed consume ends the call with the users table as it was; and a user's
\* password hash changes only in the change_password step of a reset_password
\* call, for the user that call's consume returned.
C9_NoChangeWithoutConsume ==
    [][/\ \A p \in ResetCallers :
            (RFree(p) /\ rcall'[p].op = "reset" /\ rcall'[p].pc # "idle"
                      /\ rcall'[p] # rcall[p])
            => IF rcall'[p].pc = "done"
               THEN /\ rcall'[p].res # "Ok"
                    /\ rcall'[p].uid = None
                    /\ users' = users
               ELSE /\ rcall'[p].pc = "r_find"
                    /\ IsSome(resets[rcall'[p].rid])
                    /\ rcall'[p].uid =
                           Some(Unwrap(resets[rcall'[p].rid]).user_id)
       /\ \A u \in UserIds :
            users'[u] # users[u]
            => \E p \in ResetCallers :
                  /\ rcall[p].pc = "r_change" /\ rcall[p].op = "reset"
                  /\ rcall[p].uid = Some(u)
                  /\ rcall'[p].pc = "done" /\ rcall'[p].res = "Ok"
      ]_vars

\* C9 happens: one reset_password failed at its consume step and another one
\* changed the password of the user its reset id was bound to.
C9_Witness ==
    \E p, q \in ResetCallers :
        /\ rcall[p].pc = "done" /\ rcall[p].op = "reset"
        /\ rcall[p].res = "NotFound" /\ rcall[p].uid = None
        /\ rcall[q].pc = "done" /\ rcall[q].op = "reset" /\ rcall[q].res = "Ok"
        /\ IsSome(rcall[q].uid)
        /\ Unwrap(users[Unwrap(rcall[q].uid)]).password_hash # InitialHash

\* C10: once reset_password has consumed its reset id the id is gone from the
\* backend; a find_user_by_id or change_password step that ends the call with
\* an error leaves the users table and the reset ids as they were; and a
\* reset_password on an id that is gone ends at its consume step with an
\* error.
C10_FailedResetSpendsId ==
    [][/\ \A p \in ResetCallers :
            (rcall'[p].op = "reset" /\ IsSome(rcall'[p].uid))
            => resets'[rcall'[p].rid] = None
       /\ \A p \in ResetCallers :
            (rcall[p].pc \in {"r_find", "r_change"} /\ rcall'[p].pc = "done"
                 /\ rcall'[p].res # "Ok")
            => (users' = users /\ resets' = resets)
       /\ \A p \in ResetCallers :
            (RFree(p) /\ rcall'[p].op = "reset" /\ rcall'[p] # rcall[p]
                 /\ rcall'[p].pc # "idle" /\ resets[rcall'[p].rid] = None)
            => (rcall'[p].pc = "done" /\ rcall'[p].res # "Ok" /\ users' = users)
      ]_vars

\* C10 happens: a reset_password consumed its id and then failed on a short
\* password, the user's hash is the initial one, and a retry with the same id
\* failed with NotFound.
C10_Witness ==
    \E p, q \in ResetCallers :
        /\ p # q
        /\ rcall[p].pc = "done" /\ rcall[p].op = "reset"
        /\ rcall[p].res = "PasswordTooShort" /\ IsSome(rcall[p].uid)
        /\ Unwrap(rcall[p].uid) \in UserIds
        /\ Unwrap(users[Unwrap(rcall[p].uid)]).password_hash = InitialHash
        /\ resets[rcall[p].rid] = None
        /\ rcall[q].pc = "done" /\ rcall[q].op = "reset"
        /\ rcall[q].rid = rcall[p].rid /\ rcall[q].res = "NotFound"

(***************************************************************************)
(* Properties of the session backends (checked under SpecSession).         *)
(***************************************************************************)
\* The step is a session(id) call returning.
ReadStep(id) == last' # last /\ last'.op = "session" /\ last'.id = id

\* The latest operation was a successful new_session at the current instant.
JustCreated ==
    /\ last.op = "new_session" /\ last.res = "Ok"
    /\ Unwrap(last.rec).expires_at = now + alive_duration

\* C11 as stated: with a positive alive_duration, a session(id) that follows
\* a successful new_session(u) at once returns a record with that id and
\* owner u (unless the connection pool fails).
C11_ImmediateReadReturnsOwner ==
    [][(JustCreated /\ alive_duration > 0 /\ ReadStep(last.id))
       => \/ last'.res = "Pool"
          \/ /\ last'.res = "Ok" /\ IsSome(last'.rec)
             /\ Unwrap(last'.rec).id = last.id
             /\ Unwrap(last'.rec).user_id = Unwrap(last.rec).user_id
      ]_vars

\* C12: with a negative alive_duration, the first session(id) after a
\* successful new_session returns no record, with auto_refresh or without,
\* and leaves no record under the id.
C12_BornExpiredIsAbsent ==
    [][(last.op = "new_session" /\ last.res = "Ok" /\ alive_duration < 0
           /\ ReadStep(last.id))
       => (last'.rec = None /\ sessions'[last.id] = None)
      ]_vars

\* C12 happens: an auto-refreshing SessionHandler with a negative
\* alive_duration created a session and the read of it found nothing.
C12_Witness ==
    /\ variant = "handler" /\ auto_refresh /\ alive_duration < 0
    /\ nextSession = 1 /\ sweep = None
    /\ last = [op |-> "session", id |-> 1, res |-> "Ok", rec |-> None]

\* C13: in the in-memory backends a session(id) on a record with
\* expires_at <= now returns no record (NotFound in session/memory.rs) and
\* removes it, leaving the other records alone; a record it returns has
\* expires_at > now.
C13_MemoryReadDropsExpired ==
    [][\A id \in SessionIds :
          (variant \in {"handler", "memory"} /\ ReadStep(id))
          => /\ IsSome(last'.rec) => now < Unwrap(last'.rec).expires_at
             /\ (IsSome(sessions[id]) /\ now >= Unwrap(sessions[id]).expires_at)
                => /\ last'.rec = None
                   /\ variant = "memory" => last'.res = "NotFound"
                   /\ sessions' = [sessions EXCEPT ![id] = None]
      ]_vars

\* C13 happens: a positive lifetime ran out with the record still in the
\* table, and the read of it answered NotFound and removed it.
C13_Witness ==
    /\ variant = "memory" /\ alive_duration > 0 /\ ~auto_refresh
    /\ nextSession = 1 /\ sweep = None /\ now >= alive_duration
    /\ last = [op |-> "session", id |-> 1, res |-> "NotFound", rec |-> None]
    /\ sessions[1] = None

\* The table holds a record for the id that has not expired: a read returns it.
Active(tbl, id, t) == IsSome(tbl[id]) /\ t < Unwrap(tbl[id]).expires_at

\* C14 as stated: a session that was issued and is no longer Active (expired
\* or deleted) is not Active after any step.
C14_NoReturnToActive ==
    [][\A id \in SessionIds :
          (id <= nextSession /\ ~Active(sessions, id, now))
          => ~Active(sessions', id, now')
      ]_vars

\* C15 as stated: under auto_refresh a session(id) that returns a record
\* leaves the stored record with expires_at = now + alive_duration and
\* returns the record with that expires_at.
C15_ReadExtendsLife ==
    [][\A id \in SessionIds :
          (auto_refresh /\ ReadStep(id) /\ last'.res = "Ok" /\ IsSome(last'.rec))
          => /\ IsSome(sessions'[id])
             /\ Unwrap(sessions'[id]).expires_at = now + alive_duration
             /\ Unwrap(last'.rec).expires_at = now + alive_duration
      ]_vars

\* C16 as stated: under auto_refresh and a positive alive_duration, of two
\* successive successful reads of a session the second returns an expires_at
\* not earlier than the first.
C16_RefreshNeverShortens ==
    [][(auto_refresh /\ alive_duration > 0
           /\ last.op = "session" /\ last.res = "Ok" /\ IsSome(last.rec)
           /\ ReadStep(last.id) /\ last'.res = "Ok" /\ IsSome(last'.rec))
       => Unwrap(last'.rec).expires_at >= Unwrap(last.rec).expires_at
      ]_vars

\* The step is an extend_expiry_date / expire call on the id returning.
ExtendStep(id) == last' # last /\ last'.op = "extend_expiry_date" /\ last'.id = id
ExpireStep(id) == last' # last /\ last'.op = "expire" /\ last'.id = id

\* C17 as stated: extend_expiry_date(session, t) fails with NotFound and
\* changes nothing when the backend holds no record for the session; on a
\* record it holds it stores expires_at = t and returns the updated record
\* (unless the connection pool fails).
C17_ExtendSetsOrNotFound ==
    [][\A id \in SessionIds :
          (ExtendStep(id) /\ last'.res # "Pool")
          => IF sessions[id] = None
             THEN last'.res = "NotFound" /\ sessions' = sessions
             ELSE /\ last'.res = "Ok"
                  /\ last'.rec = sessions'[id]
                  /\ \E t \in ExtendTargets :
                        sessions' = [sessions EXCEPT ![id] =
                            Some([Unwrap(sessions[id]) EXCEPT !.expires_at = t])]
      ]_vars

C19_AbsentIsNotFound ==
    [][\A id \in SessionIds :
          (ReadStep(id) /\ ~Active(sessions, id, now) /\ last'.res # "Pool")
          => \/ last'.res = "NotFound"
             \/ variant = "handler" /\ last'.res = "Ok" /\ last'.rec = None
      ]_vars

(***************************************************************************)
(* Properties of Argon2idStrategy::new (checked under SpecStrategy).       *)
(***************************************************************************)
\* C20: Argon2idStrategy::new returns Ok exactly when the pepper has at
\* least 8 bytes, memory_mib >= 15, iteration_count >= 2 and
\* parallelism_degree >= 1; with one of them below its minimum and the
\* others not, the error is that parameter's own.
C20_NewChecksAllFour ==
    IsSome(strategy)
    => LET r == Unwrap(strategy).res
           p == params.pepper_len >= 8
           m == params.memory_mib >= 15
           i == params.iteration_count >= 2
           d == params.parallelism_degree >= 1
       IN /\ r = "Ok" <=> (p /\ m /\ i /\ d)
          /\ (~p /\ m /\ i /\ d) => r = "PepperTooWeak"
          /\ (p /\ ~m /\ i /\ d) => r = "MemoryUseTooWeak"
          /\ (p /\ m /\ ~i /\ d) => r = "IterationTooWeak"
          /\ (p /\ m /\ i /\ ~d) => r = "ParallelismTooWeak"
          /\ r = "PepperTooWeak" => ~p
          /\ r = "MemoryUseTooWeak" => ~m
          /\ r = "IterationTooWeak" => ~i
          /\ r = "ParallelismTooWeak" => ~d

\* C20 happens: parallelism 0 with the other three at their minimums was
\* refused as ParallelismTooWeak.
C20_Witness ==
    /\ params = [MinimalParams EXCEPT !.parallelism_degree = 0]
    /\ strategy = Some([res |-> "ParallelismTooWeak"])

(***************************************************************************)
(* Properties of the Argon2id strategy's hashing (checked under            *)
(* SpecStrategy).                                                          *)
(***************************************************************************)
\* C21 as stated: generate_password_hash fails with PasswordTooShort exactly
\* when the password has fewer than 8 characters, and returns a hash
\* otherwise.
C21_ShortMeansFewerChars ==
    IsSome(stored)
    => (Unwrap(stored).res = "PasswordTooShort" <=> Len(password) < 8)

\* C22 as stated: for every configuration Argon2idStrategy::new accepts and
\* passwords p, q of at least 8 characters, generate_password_hash(p)
\* returns a hash, and verify_password on that hash returns Ok(true) for
\* q = p and Ok(false) for q # p, whatever the salt.
C22_VerifyAcceptsExactlyThePassword ==
    (/\ IsSome(strategy) /\ Unwrap(strategy).res = "Ok"
     /\ Len(password) >= 8 /\ Len(attempt) >= 8 /\ IsSome(stored))
    => /\ Unwrap(stored).res = "Ok"
       /\ (IsSome(checked) /\ Unwrap(checked).hash = Unwrap(stored).hash)
          => Unwrap(checked).verify = [res |-> "Ok", val |-> (attempt = password)]

\* C23 as stated: on a well-formed stored hash and a wrong password
\* verify_password returns Ok(false) and the user backend InvalidPassword; on
\* a malformed stored hash verify_password returns an error, and so does the
\* backend (not InvalidPassword); and the backend returns InvalidPassword
\* exactly on Ok(false).
C23_WrongIsFalseMalformedIsError ==
    IsSome(checked)
    => LET c == Unwrap(checked) IN
       /\ (c.hash.wellformed /\ attempt # password)
          => c.verify = [res |-> "Ok", val |-> FALSE]
       /\ ~c.hash.wellformed
          => (c.verify.res = "Argon2PasswordHash" /\ c.login = "Password")
       /\ c.login = "InvalidPassword" <=> c.verify = [res |-> "Ok", val |-> FALSE]

\* C38 as stated: a verify_token that fails because no AppAuth has the id
\* returns an error with the same message as one that fails on a wrong token
\* for an AppAuth that is there, Error::InvalidToken's.  (The lookup of an
\* id without a row ends the call with Error::Sqlx whether or not the
\* connection could be acquired, so the step is the same in both cases.)
C38_SameMessageForUnknownId ==
    [][\A p \in Callers :
          (/\ call[p].pc = "v_find" /\ call'[p].pc = "done"
           /\ find_appauth_by_id(call[p].id) = None)
          => Error_message(call'[p].res) = Error_message("InvalidToken")
      ]_vars

\* C36 as stated: for every configuration Argon2idStrategy::new accepts,
\* hashing a password of at least 8 bytes does not panic, and the memory cost
\* in the hash is memory_mib * 1024 KiB (memory_mib whole MiB), not below the
\* floor of 15 MiB.
C36_MemoryCostNeverWraps ==
    (/\ IsSome(strategy) /\ Unwrap(strategy).res = "Ok"
     /\ IsSome(stored) /\ Unwrap(stored).res # "PasswordTooShort")
    => /\ Unwrap(stored).res = "Ok"
       /\ Unwrap(stored).hash.m_cost \div 1024 = params.memory_mib
       /\ Unwrap(stored).hash.m_cost >= MinMemoryMib * 1024

(***************************************************************************)
(* Concurrency of the session backends (checked under SpecSession).        *)
(***************************************************************************)
\* C27 as stated: a read under auto_refresh is one step with its expiry
\* update.  A session that is there and unexpired when the read runs is not
\* reported NotFound, and when the read returns a record its update has
\* taken effect: the stored record carries the refresh target
\* now + alive_duration, as does the record returned.
C27_RefreshIsAtomic ==
    [][\A id \in SessionIds :
          /\ (auto_refresh /\ ReadStep(id) /\ Active(sessions, id, now))
             => last'.res # "NotFound"
          /\ (auto_refresh /\ ReadStep(id) /\ last'.res = "Ok" /\ IsSome(last'.rec))
             => /\ IsSome(sessions'[id])
                /\ sessions'[id] = last'.rec
                /\ Unwrap(sessions'[id]).expires_at = now + alive_duration
      ]_vars

\* C30 as stated: in the in-memory backend the removal step of
\* clear_stale_sessions removes only sessions that are expired at that
\* moment, whatever ran between its collection of the keys and the removal.
C30_SweepRemovesOnlyExpired ==
    [][\A id \in SessionIds :
          (/\ variant = "memory"
           /\ IsSome(sweep) /\ sweep' = None
           /\ IsSome(sessions[id]) /\ sessions'[id] = None)
          => now >= Unwrap(sessions[id]).expires_at
      ]_vars

(***************************************************************************)
(* Frame conditions of the session backends (checked under SpecSession).   *)
(***************************************************************************)
\* C31: in the in-memory backends clear_stale_sessions collects exactly the
\* keys of the records with expires_at at or before the current time, and
\* when that is still the set of such records at the removal (nothing ran
\* in between), the removal leaves none of them and leaves every other
\* record as it was.
C31_SweepRemovesExactlyExpired ==
    [][LET due == {k \in SessionIds :
                      IsSome(sessions[k]) /\ Unwrap(sessions[k]).expires_at <= now}
       IN (variant \in {"handler", "memory"})
          => ( /\ (sweep = None /\ sweep' # None) => (sweep' = Some(due))
               /\ (sweep = Some(due) /\ sweep' = None)
                  => (sessions' = [k \in SessionIds |->
                                     IF k \in due THEN None ELSE sessions[k]]) )
      ]_vars

\* C31 happens: a sweep has collected the key of a record expiring at this
\* very instant, and only that, while a record with a later expires_at is in
\* the table.
C31_Witness ==
    /\ variant = "memory"
    /\ \E k, j \in SessionIds :
          /\ sweep = Some({k})
          /\ IsSome(sessions[k]) /\ Unwrap(sessions[k]).expires_at = now
          /\ IsSome(sessions[j]) /\ Unwrap(sessions[j]).expires_at > now

\* C32: a successful expire leaves no record under the id, and a record that
\* is gone stays gone: no later step (an extend_expiry_date by a caller still
\* holding the session, a refreshing read) puts a record back under an id
\* already issued, and a read of it returns no session.
C32_DeleteIsFinal ==
    [][\A id \in SessionIds :
          /\ (ExpireStep(id) /\ last'.res = "Ok") => (sessions'[id] = None)
          /\ (id <= nextSession /\ sessions[id] = None)
             => ( /\ sessions'[id] = None
                  /\ ReadStep(id) => (last'.rec = None) )
      ]_vars

\* C32 happens: on the in-memory backend a session was deleted before it
\* could expire, and a caller's extend_expiry_date for it came too late.
C32_Witness ==
    /\ variant = "memory" /\ now = 0 /\ alive_duration > 0
    /\ last.op = "extend_expiry_date" /\ last.res = "NotFound"
    /\ last.id \in 1..nextSession
    /\ sessions[last.id] = None

\* C33: with auto_refresh off, a session(id) that returns a record changes
\* no record of the table, the one read included.
C33_PlainReadChangesNothing ==
    [][\A id \in SessionIds :
          (~auto_refresh /\ ReadStep(id) /\ last'.res = "Ok" /\ IsSome(last'.rec))
          => (sessions' = sessions)
      ]_vars

\* C33 happens: a SessionHandler without auto_refresh returned a session
\* some time after creating it, and the stored expires_at is the one fixed
\* at creation.
C33_Witness ==
    /\ variant = "handler" /\ ~auto_refresh /\ now > 0
    /\ last.op = "session" /\ last.res = "Ok" /\ IsSome(last.rec)
    /\ sessions[last.id] = Some(Session(last.id, Unwrap(last.rec).user_id,
                                        alive_duration))

\* C34 as stated: a successful new_session leaves, and returns, a record
\* with expires_at = now + alive_duration under the new id, and so does a
\* successful SessionHandler::extend_expiry_date under the session's id.
C34_LifetimeStoredExactly ==
    [][\A id \in SessionIds :
          ( /\ last' # last /\ last'.id = id /\ last'.res = "Ok"
            /\ \/ last'.op = "new_session"
               \/ last'.op = "extend_expiry_date" /\ variant = "handler" )
          => ( /\ IsSome(last'.rec) /\ sessions'[id] = last'.rec
               /\ Unwrap(last'.rec).expires_at = now + alive_duration )
      ]_vars

\* C35: in the in-memory backends every key of the table is the id of the
\* record stored under it, a successful new_session adds exactly one entry,
\* under an id that had none, and no step changes the id or the owner of a
\* record that stays in the table.
C35_KeysAreIdsOwnersFixed ==
    [][(variant \in {"handler", "memory"})
       => ( /\ \A k \in SessionIds :
                 /\ IsSome(sessions'[k]) => (Unwrap(sessions'[k]).id = k)
                 /\ (IsSome(sessions[k]) /\ IsSome(sessions'[k]))
                    => ( /\ Unwrap(sessions'[k]).id = Unwrap(sessions[k]).id
                         /\ Unwrap(sessions'[k]).user_id = Unwrap(sessions[k]).user_id )
            /\ (last' # last /\ last'.op = "new_session" /\ last'.res = "Ok")
               => ( /\ sessions[last'.id] = None
                    /\ IsSome(last'.rec)
                    /\ sessions' = [sessions EXCEPT ![last'.id] = last'.rec] ) )
      ]_vars
C35_Witness ==
    /\ variant = "memory"
    /\ last.op = "new_session" /\ last.res = "Ok" /\ last.id = 2
    /\ sessions[2] = last.rec
    /\ IsSome(sessions[1]) /\ Unwrap(sessions[1]).id = 1
    /\ Unwrap(sessions[1]).user_id # Unwrap(sessions[2]).user_id
    /\ Unwrap(sessions[1]).expires_at > alive_duration

(***************************************************************************)
(* Further properties of the AppAuth backend (checked under SpecAppAuth).  *)
(***************************************************************************)
\* C25 as stated: when create_appauth returns Ok (the row read back being
\* the row the durable store still holds), the durable store holds the
\* record with the new token under the returned id, and the cache answers
\* with that token exactly as long as the record lasts: for ever when
\* expires_at is absent, otherwise at every time before expires_at and at
\* none from it on.
C25_CacheSharesExpiry ==
    [][\A p \in Callers :
          (/\ call[p].pc = "c_set" /\ call'[p].pc = "done"
           /\ call'[p].res = "Ok" /\ pg[call[p].id] = call[p].rec)
          => LET rec == Unwrap(call'[p].rec)
                 entry == redis'[rec.id]
             IN
             /\ pg'[rec.id] = Some(rec) /\ rec.token \in NewTokens
             /\ \A t \in Times :
                   t >= now
                   => ((/\ IsSome(entry) /\ Unwrap(entry).token = rec.token
                        /\ Live(Unwrap(entry), t))
                          <=> (rec.expires_at = None \/ t < Unwrap(rec.expires_at)))
      ]_vars

\* C28 as stated: a verify_token call does not undo the healing of the
\* cache: when the cache holds the durable record's current token, the
\* call's cache rewrite leaves it holding that token (or, the entry being
\* past its expiry, nothing), even if the call read the record before an
\* out-of-band rotation.
C28_HealedCacheStaysHealed ==
    [][\A p \in Callers :
          (/\ call[p].pc = "v_set" /\ call'[p].pc = "done"
           /\ IsSome(pg[call[p].id])
           /\ redis_get(redis, call[p].id) = Some(Unwrap(pg[call[p].id]).token))
          => redis_get(redis', call[p].id)
                \in {None, Some(Unwrap(pg[call[p].id]).token)}
      ]_vars

\* C29 as stated: verify_token does not return Ok for an AppAuth whose
\* expires_at has been reached.
C29_ExpiredNeverVerifies ==
    [][\A p \in Callers :
          (/\ call'[p].op = "verify" /\ call[p].pc # "done"
           /\ call'[p].pc = "done" /\ call'[p].res = "Ok"
           /\ IsSome(pg[call'[p].id]))
          => LET e == Unwrap(pg[call'[p].id]).expires_at
             IN e = None \/ now < Unwrap(e)
      ]_vars

C37_ListUsersReportsBadRows ==
    (IsSome(listed) /\ Unwrap(listed).res = "Ok")
    => /\ Len(Unwrap(listed).users) = 2
       /\ Unwrap(listed).users[1].username = idents.a
       /\ Unwrap(listed).users[2].username = idents.b

\* The character with its letter case folded.
FoldCase(c) == CASE c = "A" -> "a" [] c = "E_acute" -> "e_acute" [] OTHER -> c

\* C24 as stated: two identifiers that differ only in letter case are equal,
\* compare as Equal and hash to the same value, as the policy type and as
\* Username<T>.
C24_CaseInsensitive ==
    (/\ IsSome(compared)
     /\ Len(idents.a) = Len(idents.b)
     /\ \A i \in 1..Len(idents.a) : FoldCase(idents.a[i]) = FoldCase(idents.b[i]))
    => LET c == Unwrap(compared) IN
       /\ c.eq /\ c.cmp = "Equal" /\ c.hash_a = c.hash_b
       /\ c.wrapped_eq /\ c.wrapped_cmp = "Equal"
       /\ c.wrapped_hash_a = c.wrapped_hash_b

=============================================================================
